---- MODULE Spec2Model ----
(***************************************************************************)
(* Content-generation workflow of PostFast: the LangGraph pipeline         *)
(* (src/src/agents/content_agent), the Celery tasks that run it            *)
(* (src/src/tasks.py) and the HTTP routes that enqueue, poll and resume    *)
(* it (src/src/routers/content.py).                                        *)
(*                                                                         *)
(* Texts produced by the generation backend are opaque: a generation call  *)
(* returns a text that differs from every text the workflow state holds,   *)
(* represented by the next unused positive number (NewText), so within a   *)
(* thread two fields hold equal texts exactly when one was copied from the *)
(* other.  None, the empty string and an absent key are the non-positive   *)
(* values None, EmptyStr and Absent.                                       *)
(*                                                                         *)
(* The compiled graph is taken to start from the state dictionary the task *)
(* passes to it, as the comments of tasks.py 346-347 expect.               *)
(***************************************************************************)
EXTENDS Integers, Sequences, FiniteSets, TLC

\* ------------------------------------------------------------------ bounds
MaxRequests == 1
MaxSubmits == 2
MaxTokens == 1
MaxRevisionCycles == 4
\* polls of the page loop that are followed
MaxPolls == 31
\* logins and requests of one browser session that are followed
MaxLogins == 2
MaxCallbacks == 4

\* ------------------------------------------------------- values and names
None == 0
CyclesNone == -1
EmptyStr == -1
Absent == -2
ApprovedNote == -3

NoFeedback == "<None>"
AbsentFeedback == "<absent>"
APPROVAL == "aprobar"
Feedbacks == {" Aprobar ", "make it shorter"}

NoMetadata == -1
UsageReports == {NoMetadata, 0, 1}

MAX_AUTO_REVISIONS == 2
CYCLE_CEILING == 1

TaskIds == 1..(MaxRequests + MaxSubmits)

LLMNodes == {"analyze_audience", "draft_post", "refine_for_engagement",
             "finalize_and_format", "extract_final_post"}
NodeNames == LLMNodes \cup {"quality_gate", "unknown_node"}

TokenUsageCallbackMethods == {"__init__", "set_current_node", "on_llm_end"}

\* Python truthiness of an Optional[str] text field
Truthy(x) == x > 0

\* Python truthiness of the human_feedback string
FeedbackTruthy(f) == f \notin {NoFeedback, AbsentFeedback, ""}

\* str.strip().lower() on the feedback strings of the model
StripLower(s) == IF s = " Aprobar " THEN "aprobar" ELSE s

VARIABLES tasks, queue, pc, cur, thread_id, st, current_node, exc_state,
          exc,
          next_task, next_thread, submits, http,
          msg, steps, entry, ended, lastGate, started, content_to_refine,
          runs,
          callbacks,
          poll,
          fetch,
          oauth

\* the state of the parts studied on their own
aux == <<runs, callbacks, poll, fetch, oauth>>

\* the state of the service, its queue and its one worker
service == <<tasks, queue, pc, cur, thread_id, st, current_node, exc_state,
             exc, next_task, next_thread, submits, http, msg, steps, entry,
             ended, lastGate, started, content_to_refine>>

vars == <<tasks, queue, pc, cur, thread_id, st, current_node, exc_state,
          exc,
          next_task, next_thread, submits, http,
          msg, steps, entry, ended, lastGate, started, content_to_refine,
          aux>>

\* ------------------------------------------------------------ data shapes
Payload == [query |-> "q", tone |-> "Professional", niche |-> "n",
            account_name |-> "acct", link_url |-> NoFeedback]

NoPayload == [query |-> "", tone |-> "", niche |-> "",
              account_name |-> "", link_url |-> ""]

EmptyUsage == [n \in NodeNames |-> 0]

\* a task that leaves revision_cycles out of the state it builds
InitialGraphStateWithoutCycles(p) ==
    [query |-> p.query, tone |-> p.tone, niche |-> p.niche,
     account_name |-> p.account_name, link_url |-> p.link_url,
     creative_brief |-> None, draft_content |-> None,
     refined_content |-> None, formatted_output |-> Absent,
     final_post |-> None, review_notes |-> EmptyStr,
     revision_cycles |-> CyclesNone, human_feedback |-> NoFeedback,
     token_usage_by_node |-> [n \in NodeNames |-> 0], total_tokens |-> 0]

\* tasks.py 220-235
InitialGraphState(p) ==
    [query |-> p.query, tone |-> p.tone, niche |-> p.niche,
     account_name |-> p.account_name, link_url |-> p.link_url,
     creative_brief |-> None, draft_content |-> None,
     refined_content |-> None, formatted_output |-> Absent,
     final_post |-> None, review_notes |-> EmptyStr,
     revision_cycles |-> 0, human_feedback |-> NoFeedback,
     token_usage_by_node |-> EmptyUsage, total_tokens |-> 0]

NoState == InitialGraphState(NoPayload)

NoCheckpoint == [present |-> FALSE, thread_id |-> 0, graph_state |-> NoState,
                 human_feedback |-> NoFeedback]

NoResult == [final_post |-> None, token_usage_per_node |-> EmptyUsage,
             total_tokens_used |-> 0]

\* a row of the Celery result backend; an id the backend has no row for
\* reads as PENDING
PendingRecord == [state |-> "PENDING", checkpoint |-> NoCheckpoint,
                  draft_content |-> None, result |-> NoResult,
                  error |-> "none"]

\* a task message on the broker: the task's name, its id and its arguments
NoMessage == [task |-> "none", id |-> 0, has_payload |-> FALSE,
              payload |-> NoPayload, checkpoint |-> NoCheckpoint,
              feedback |-> NoFeedback, retries |-> 0]

NoGate == [cycles |-> 0, feedback |-> NoFeedback, decision |-> "none",
           after |-> 0]

NoEnded == [id |-> 0, how |-> "none", status |-> "none"]

\* the exceptions a generation call can raise inside a step: one a later
\* attempt could get past (time-out, rate limit) and one it could not
NoException == "none"
Missing == "<missing>"
StepErrors == {"TransientGenerationError", "GenerationError"}

NoHttp == [op |-> "none", req |-> 0, code |-> 0, task_id |-> 0]

\* two worker slots that run tasks side by side, and their callbacks
Slots == {1, 2}

NoRun == [pc |-> "idle", tagged |-> FALSE, st |-> NoState,
          outcome |-> "none"]

NoRuns == [w \in Slots |-> NoRun]

\* a callback: the node it was last told and the task whose graph_state
\* dictionary it holds
NoCallback == [node |-> "unknown_node", owner |-> 0]

NoCallbacks == [w \in Slots |-> NoCallback]

\* pages/content_generation.py 10: the polls handle_polling makes before it
\* gives up
max_attempts == 30

\* social_apis.py 10: the default of max_retries
DEFAULT_MAX_RETRIES == 3

\* the session of the Streamlit page that polls a generation task, the task
\* row it polls (known: the result backend has the task) and what it shows
NoPoll == [page |-> "none", generation_task_id |-> 0, known |-> FALSE,
           state |-> "PENDING", polling_attempts |-> Absent, calls |-> 0,
           shown |-> "none"]

\* a call of fetch_with_retry_log: its argument, the index of the loop, the
\* responses api_call_func gave, and how the call ended
NoFetch == [max_retries |-> 0, attempt |-> 0, responses |-> <<>>,
            outcome |-> "idle", value |-> "none"]

\* the browser session of the FastAPI app (oauth_state), the states login
\* issued, the token requests and session rows made, and the last request
NoRequest == [op |-> "none", error |-> FALSE, code |-> FALSE, state |-> 0,
              stored |-> 0, result |-> "none"]

NoOAuth == [oauth_state |-> 0, issued |-> 0, requests |-> 0, tokens |-> 0,
            rows |-> 0, accepted |-> {}, last |-> NoRequest]

Init ==
    /\ tasks = [t \in TaskIds |-> PendingRecord]
    /\ queue = <<>>
    /\ pc = "idle"
    /\ cur = 0
    /\ thread_id = 0
    /\ st = NoState
    /\ current_node = "unknown_node"
    /\ exc_state = NoState
    /\ exc = NoException
    /\ next_task = 1
    /\ next_thread = 1
    /\ submits = 0
    /\ http = NoHttp
    /\ msg = NoMessage
    /\ steps = <<>>
    /\ entry = NoState
    /\ ended = NoEnded
    /\ lastGate = NoGate
    /\ started = <<>>
    /\ content_to_refine = None
    /\ runs = NoRuns
    /\ callbacks = NoCallbacks
    /\ poll = NoPoll
    /\ fetch = NoFetch
    /\ oauth = NoOAuth

\* ------------------------------------------------------ usage accounting
\* TokenUsageCallback.on_llm_end: a positive count is added to the entry of
\* the current node and to the total; zero or missing metadata adds nothing
ExtractedTokensCountingMissing(report) ==
    IF report = NoMetadata THEN 1 ELSE report

ExtractedTokens(report) == IF report = NoMetadata THEN 0 ELSE report

on_llm_endTotalOnly(state, node, report) ==
    [state EXCEPT !.total_tokens = @ + ExtractedTokens(report)]

on_llm_end(state, node, report) ==
    LET total_tokens == ExtractedTokens(report) IN
    IF total_tokens > 0
    THEN [state EXCEPT
            !.token_usage_by_node[node] = @ + total_tokens,
            !.total_tokens = @ + total_tokens]
    ELSE state

\* the text of the next generation call: unused in the workflow state
TextMax(a, b) == IF a >= b THEN a ELSE b

NewText(state) ==
    1 + TextMax(state.creative_brief, TextMax(state.draft_content,
        TextMax(state.refined_content, TextMax(state.formatted_output,
        TextMax(state.final_post, TextMax(state.review_notes, 0))))))

\* the usage reports the backend may give while the model's cap allows
Reports(state) ==
    {r \in UsageReports : r > 0 => state.total_tokens + r <= MaxTokens}

\* ------------------------------------------------------------ HTTP routes
\* POST /generate_post
generate_post_start ==
    /\ next_task <= MaxRequests
    /\ queue' = Append(queue,
            [NoMessage EXCEPT !.task = "content_generation_task",
                              !.id = next_task, !.has_payload = TRUE,
                              !.payload = Payload])
    /\ next_task' = next_task + 1
    /\ http' = [op |-> "generate", req |-> 0, code |-> 202,
                task_id |-> next_task]
    /\ UNCHANGED <<tasks, pc, cur, thread_id, st, current_node, exc_state, exc,
                   content_to_refine, next_thread, submits, msg, steps, entry,
                   ended, lastGate, started>>
    /\ UNCHANGED aux

\* a body that lacks a required field of ContentGenerationPayload is turned
\* down by the request validation before the handler runs
generate_post_invalid ==
    /\ http' = [op |-> "generate", req |-> 0, code |-> 422, task_id |-> 0]
    /\ UNCHANGED <<tasks, queue, pc, cur, thread_id, st, current_node,
                   exc_state, exc, content_to_refine, next_task, next_thread,
                   submits, msg, steps, entry, ended, lastGate, started>>
    /\ UNCHANGED aux

\* a producer that sends the task by name, past the route's validation:
\* with no arguments at all, or with a payload that lacks "query"
content_generation_task_delay ==
    /\ next_task <= MaxRequests
    /\ \E m \in {[NoMessage EXCEPT !.task = "content_generation_task",
                                   !.id = next_task],
                  [NoMessage EXCEPT !.task = "content_generation_task",
                                   !.id = next_task, !.has_payload = TRUE,
                                   !.payload = [Payload EXCEPT
                                                  !.query = Missing]]} :
            queue' = Append(queue, m)
    /\ next_task' = next_task + 1
    /\ UNCHANGED <<tasks, pc, cur, thread_id, st, current_node, exc_state,
                   exc, content_to_refine, next_thread, submits, http, msg,
                   steps, entry, ended, lastGate, started>>
    /\ UNCHANGED aux

\* the task id generate_post_resume runs the resumed execution under
\* (content.py 245-250: the same id)
ResumeTaskId(task_id) == task_id

\* content.py 243: the feedback is written on the checkpoint envelope
InjectFeedback(checkpoint, feedback) ==
    [checkpoint EXCEPT !.human_feedback = feedback]

\* a route whose status test is inverted
ResumeStatusCodeInverted(record) ==
    IF record.state = "PENDING_USER_INPUT" THEN 400
    ELSE 202

\* content.py 232-240: the status code generate_post_resume answers with
ResumeStatusCode(record) ==
    IF record.state # "PENDING_USER_INPUT" THEN 400
    ELSE IF ~record.checkpoint.present THEN 404
    ELSE 202

\* POST /generate_post/resume
generate_post_resume ==
    /\ submits < MaxSubmits
    /\ \E task_id \in TaskIds, feedback \in Feedbacks :
        LET original == tasks[task_id]
            code == ResumeStatusCode(original)
        IN
        IF code # 202
        THEN /\ http' = [op |-> "resume", req |-> task_id, code |-> code,
                         task_id |-> 0]
             /\ UNCHANGED <<queue, submits>>
        ELSE /\ submits' = submits + 1
             /\ queue' = Append(queue,
                    [NoMessage EXCEPT
                        !.task = "content_generation_task",
                        !.id = ResumeTaskId(task_id),
                        !.checkpoint =
                            InjectFeedback(original.checkpoint, feedback)])
             /\ http' = [op |-> "resume", req |-> task_id, code |-> 202,
                         task_id |-> ResumeTaskId(task_id)]
    /\ UNCHANGED <<tasks, pc, cur, thread_id, st, current_node, exc_state, exc,
                   content_to_refine, next_task, next_thread, msg, steps,
                   entry, ended, lastGate, started>>
    /\ UNCHANGED aux

\* ------------------------------------------------- content_generation_task
\* the validation the task makes of its payload before it builds the state:
\* no payload is a ValueError, a payload without a required key a KeyError
PayloadErrorNever(m) == NoException

PayloadError(m) ==
    IF ~m.has_payload THEN "ValueError"
    ELSE IF m.payload.query = Missing THEN "KeyError"
    ELSE NoException

\* a task that draws a new thread id also when it is given a checkpoint
ThreadIdAlwaysFresh(checkpoint, fresh) == fresh

\* tasks.py 207-214: the thread id of an execution is the checkpoint's when
\* there is a checkpoint and a new uuid4 otherwise
ThreadId(checkpoint, fresh) ==
    IF checkpoint.present THEN checkpoint.thread_id ELSE fresh

\* the worker takes a message: Celery marks the task STARTED
\* (task_track_started), then lines 205-243 build the graph state
content_generation_task_start ==
    /\ pc = "idle"
    /\ queue # <<>>
    /\ Head(queue).task = "content_generation_task"
    /\ LET m == Head(queue) IN
        /\ queue' = Tail(queue)
        /\ msg' = m
        /\ cur' = m.id
        /\ tasks' = [tasks EXCEPT ![m.id] =
                        [PendingRecord EXCEPT !.state = "STARTED"]]
        /\ thread_id' = ThreadId(m.checkpoint, next_thread)
        /\ IF m.checkpoint.present
           THEN /\ st' = m.checkpoint.graph_state
                /\ UNCHANGED <<next_thread, exc>>
                /\ started' = Append(started,
                      [thread_id |-> m.checkpoint.thread_id,
                       final_post |-> m.checkpoint.graph_state.final_post])
                /\ pc' = "START"
           ELSE /\ next_thread' = next_thread + 1
                /\ UNCHANGED started
                /\ IF PayloadError(m) # NoException
                   THEN /\ exc' = PayloadError(m)
                        /\ st' = NoState
                        /\ pc' = "failing"
                   ELSE /\ st' = InitialGraphState(m.payload)
                        /\ pc' = "START"
                        /\ UNCHANGED exc
        /\ entry' = st'
    /\ current_node' = "unknown_node"
    /\ steps' = <<>>
    /\ UNCHANGED <<exc_state, content_to_refine, next_task, submits, http,
                   ended, lastGate>>
    /\ UNCHANGED aux

\* ------------------------------------------------------------- the graph
\* a graph whose refine node leads straight to extract_final_post
NextNodeSkippingFinalize(node) ==
    CASE node = "analyze_audience" -> "draft_post"
      [] node = "draft_post" -> "refine_for_engagement"
      [] node = "refine_for_engagement" -> "extract_final_post"
      [] node = "finalize_and_format" -> "extract_final_post"
      [] node = "extract_final_post" -> "quality_gate"

\* agent.py 60-76: the edges of the graph; extract_final_post leads to the
\* conditional edge quality_gate
NextNode(node) ==
    CASE node = "analyze_audience" -> "draft_post"
      [] node = "draft_post" -> "refine_for_engagement"
      [] node = "refine_for_engagement" -> "finalize_and_format"
      [] node = "finalize_and_format" -> "extract_final_post"
      [] node = "extract_final_post" -> "quality_gate"

\* an entry point that always starts the full pipeline
entry_routerIgnoringFeedback(state) == "analyze_audience"

\* agent.py 17-28
entry_router(state) ==
    IF FeedbackTruthy(state.human_feedback)
    THEN "refine_for_engagement"
    ELSE "analyze_audience"

EntryRouter ==
    /\ pc = "START"
    /\ pc' = entry_router(st)
    /\ UNCHANGED <<tasks, queue, cur, thread_id, st, current_node,
                   exc_state, exc,
                   content_to_refine, next_task, next_thread, submits, http,
                   msg, steps, entry, ended, lastGate, started>>
    /\ UNCHANGED aux

\* TokenUsageCallback.set_current_node: a step names itself to the
\* callback before its generation call
set_current_nodeIgnored(current, node_name) == current

set_current_node(current, node_name) == node_name

NodeFrame == <<tasks, queue, cur, thread_id, exc_state, exc, next_task,
               next_thread, submits, http, msg, entry, ended, lastGate,
               started>>

analyze_audience ==
    /\ pc = "analyze_audience"
    /\ current_node' = set_current_node(current_node, "analyze_audience")
    /\ \E report \in Reports(st) :
        LET s1 == IF st.revision_cycles = CyclesNone
                  THEN [st EXCEPT !.revision_cycles = 0] ELSE st
            s2 == on_llm_end(s1, current_node', report)
        IN st' = [s2 EXCEPT !.creative_brief = NewText(st)]
    /\ steps' = Append(steps, "analyze_audience")
    /\ pc' = NextNode("analyze_audience")
    /\ UNCHANGED <<NodeFrame, content_to_refine>>
    /\ UNCHANGED aux

draft_post ==
    /\ pc = "draft_post"
    /\ current_node' = set_current_node(current_node, "draft_post")
    /\ \E report \in Reports(st) :
        st' = [on_llm_end(st, current_node', report)
                  EXCEPT !.draft_content = NewText(st)]
    /\ steps' = Append(steps, "draft_post")
    /\ pc' = NextNode("draft_post")
    /\ UNCHANGED <<NodeFrame, content_to_refine>>
    /\ UNCHANGED aux

\* refine_for_engagement.py 33-41: the text handed to the backend as the
\* one to improve
ContentToRefine(state) ==
    IF Truthy(state.refined_content) /\ state.revision_cycles > 1
    THEN state.refined_content
    ELSE state.draft_content

refine_for_engagement ==
    /\ pc = "refine_for_engagement"
    /\ current_node' = set_current_node(current_node, "refine_for_engagement")
    /\ st.revision_cycles < MaxRevisionCycles
    /\ \E report \in Reports(st) :
        LET current_cycles == IF st.revision_cycles = CyclesNone
                              THEN 0 ELSE st.revision_cycles
            s1 == [st EXCEPT !.revision_cycles = current_cycles + 1]
            s2 == on_llm_end(s1, current_node', report)
        IN /\ content_to_refine' = ContentToRefine(s1)
           /\ st' = [s2 EXCEPT !.refined_content = NewText(st)]
    /\ steps' = Append(steps, "refine_for_engagement")
    /\ pc' = NextNode("refine_for_engagement")
    /\ UNCHANGED NodeFrame
    /\ UNCHANGED aux

finalize_and_format ==
    /\ pc = "finalize_and_format"
    /\ current_node' = set_current_node(current_node, "finalize_and_format")
    /\ \E report \in Reports(st) :
        st' = [on_llm_end(st, current_node', report)
                  EXCEPT !.formatted_output = NewText(st)]
    /\ steps' = Append(steps, "finalize_and_format")
    /\ pc' = NextNode("finalize_and_format")
    /\ UNCHANGED <<NodeFrame, content_to_refine>>
    /\ UNCHANGED aux

\* an extract step that also drops the text it was given
extract_final_postClearingFormatted ==
    /\ pc = "extract_final_post"
    /\ current_node' = set_current_node(current_node, "extract_final_post")
    /\ \E report \in Reports(st) :
        st' = [on_llm_end(st, current_node', report)
                  EXCEPT !.final_post = NewText(st),
                         !.formatted_output = None]
    /\ steps' = Append(steps, "extract_final_post")
    /\ pc' = NextNode("extract_final_post")
    /\ UNCHANGED <<NodeFrame, content_to_refine>>
    /\ UNCHANGED aux

extract_final_post ==
    /\ pc = "extract_final_post"
    /\ current_node' = set_current_node(current_node, "extract_final_post")
    /\ \E report \in Reports(st) :
        st' = [on_llm_end(st, current_node', report)
                  EXCEPT !.final_post = NewText(st)]
    /\ steps' = Append(steps, "extract_final_post")
    /\ pc' = NextNode("extract_final_post")
    /\ UNCHANGED <<NodeFrame, content_to_refine>>
    /\ UNCHANGED aux

\* a gate that never gives up on automatic revisions
GateIgnoresCeiling(state) == TRUE

\* quality_gate.py 25-32: the gate asks the backend for a verdict unless
\* the automatic revisions are used up
GateCallsBackend(state) ==
    LET current_cycles == IF state.revision_cycles = CyclesNone
                          THEN 0 ELSE state.revision_cycles
    IN ~(current_cycles > MAX_AUTO_REVISIONS)

\* quality_gate.py 60-74: the edge the gate returns for a verdict
GateDecision(state, verdict) ==
    IF ~GateCallsBackend(state) THEN "end"
    ELSE IF verdict = "APROBADO" THEN "end"
    ELSE "refine"

Verdicts == {"APROBADO", "REQUIERE MEJORA"}

quality_gate ==
    /\ pc = "quality_gate"
    /\ \E verdict \in Verdicts, report \in Reports(st) :
        LET decision == GateDecision(st, verdict) IN
        /\ IF GateCallsBackend(st)
           THEN /\ current_node' =
                    set_current_node(current_node, "quality_gate")
                /\ st' = [on_llm_end(st, current_node', report) EXCEPT
                            !.review_notes = IF verdict = "APROBADO"
                                             THEN ApprovedNote ELSE NewText(st)]
           ELSE UNCHANGED <<st, current_node>>
        /\ pc' = IF decision = "end" THEN "END" ELSE "refine_for_engagement"
        /\ lastGate' = [cycles |-> st.revision_cycles,
                        feedback |-> st.human_feedback,
                        decision |-> decision,
                        after |-> st'.revision_cycles]
    /\ UNCHANGED <<tasks, queue, cur, thread_id, exc_state, exc,
                   content_to_refine,
                   next_task, next_thread, submits, http, msg, steps, entry,
                   ended, started>>
    /\ UNCHANGED aux

\* the suspend signal tasks.py imports from the gate's module and catches:
\* raised at the gate when the cycle ceiling is reached, carrying the whole
\* state with revision_cycles reset
raise_HumanReviewRequired ==
    /\ pc = "quality_gate"
    /\ st.revision_cycles >= CYCLE_CEILING
    /\ st' = [st EXCEPT !.revision_cycles = 0]
    /\ exc_state' = st'
    /\ pc' = "raised"
    /\ lastGate' = [cycles |-> st.revision_cycles,
                    feedback |-> st.human_feedback,
                    decision |-> "pause", after |-> 0]
    /\ UNCHANGED <<tasks, queue, cur, thread_id, current_node, next_task,
                   next_thread, submits, http, msg, steps, entry, ended,
                   started, content_to_refine, exc>>
    /\ UNCHANGED aux

\* ------------------------------------------- how the task's run is ended
\* the task function returns or raises: its locals are gone
Ended(how, status) ==
    [id |-> cur, how |-> how, status |-> status]

Discard ==
    /\ pc' = "idle"
    /\ cur' = 0
    /\ thread_id' = 0
    /\ st' = NoState
    /\ exc_state' = NoState
    /\ exc' = NoException
    /\ current_node' = "unknown_node"
    /\ msg' = NoMessage
    /\ steps' = <<>>
    /\ entry' = NoState
    /\ content_to_refine' = None

\* a handler that stores the state the task was started with
\* --------------------------------------------- the result backend's JSON
\* the meta of update_state goes through the json result serializer and is
\* read back by AsyncResult.info. A JSON object holds the keys that are
\* present; a value is null, a string, a number or an object of numbers
TextFields == {"creative_brief", "draft_content", "refined_content",
               "formatted_output", "final_post", "review_notes"}

OptionalStrFields == {"link_url", "human_feedback"}

StrFields == {"query", "tone", "niche", "account_name"}

JsonNull == <<"null">>

JsonValue(field, value) ==
    CASE field \in TextFields ->
            IF value = None THEN JsonNull ELSE <<"string", value>>
      [] field \in OptionalStrFields ->
            IF value = NoFeedback THEN JsonNull ELSE <<"string", value>>
      [] field \in StrFields -> <<"string", value>>
      [] field = "revision_cycles" ->
            IF value = CyclesNone THEN JsonNull ELSE <<"number", value>>
      [] field = "total_tokens" -> <<"number", value>>
      [] field = "token_usage_by_node" ->
            <<"object", [n \in {x \in DOMAIN value : value[x] # 0}
                            |-> <<"number", value[n]>>]>>

\* the keys a state dictionary holds
PresentKeys(state) ==
    {f \in DOMAIN state :
        /\ f \in TextFields \cup {"revision_cycles"} => state[f] # Absent
        /\ f \in OptionalStrFields => state[f] # AbsentFeedback
        /\ f \in StrFields => state[f] # Missing}

\* an encoder that leaves out the keys whose value is None
json_dumpsSkippingNone(state) ==
    [f \in {k \in PresentKeys(state) : JsonValue(k, state[k]) # JsonNull}
        |-> JsonValue(f, state[f])]

json_dumps(state) ==
    [f \in PresentKeys(state) |-> JsonValue(f, state[f])]

json_loads(doc) ==
    [f \in DOMAIN NoState |->
        IF f \notin DOMAIN doc
        THEN CASE f \in TextFields \cup {"revision_cycles"} -> Absent
               [] f \in OptionalStrFields -> AbsentFeedback
               [] f \in StrFields -> Missing
               [] f = "total_tokens" -> 0
               [] f = "token_usage_by_node" -> EmptyUsage
        ELSE CASE doc[f] = JsonNull ->
                    IF f \in TextFields THEN None
                    ELSE IF f = "revision_cycles" THEN CyclesNone
                    ELSE NoFeedback
               [] doc[f] # JsonNull /\ f = "token_usage_by_node" ->
                    [n \in NodeNames |->
                        IF n \in DOMAIN doc[f][2] THEN doc[f][2][n][2]
                        ELSE 0]
               [] OTHER -> doc[f][2]]

\* what AsyncResult.info gives back for a checkpoint put in the meta
Stored(checkpoint) ==
    [checkpoint EXCEPT !.graph_state = json_loads(json_dumps(@))]

\* ------------------------------------------------------------ the handlers
CheckpointDataOfInput(thread, current_state) ==
    [present |-> TRUE, thread_id |-> thread, graph_state |-> entry,
     human_feedback |-> NoFeedback]

\* a handler that forgets the thread id
CheckpointDataWithoutThread(thread, current_state) ==
    [present |-> TRUE, thread_id |-> 0, graph_state |-> current_state,
     human_feedback |-> NoFeedback]

CheckpointData(thread, current_state) ==
    [present |-> TRUE, thread_id |-> thread, graph_state |-> current_state,
     human_feedback |-> NoFeedback]

\* tasks.py 277-280: final_post or draft_content
DraftForDisplay(current_state) ==
    IF Truthy(current_state.final_post) THEN current_state.final_post
    ELSE current_state.draft_content

\* tasks.py 265-293
except_HumanReviewRequired ==
    /\ pc = "raised"
    /\ msg.task = "content_generation_task"
    /\ tasks' = [tasks EXCEPT ![cur] =
            [PendingRecord EXCEPT
                !.state = "PENDING_USER_INPUT",
                !.checkpoint = Stored(CheckpointData(thread_id, exc_state)),
                !.draft_content = DraftForDisplay(exc_state)]]
    /\ ended' = Ended("suspend", "PENDING_USER_INPUT")
    /\ Discard
    /\ UNCHANGED <<queue, next_task, next_thread, submits, http, lastGate,
                   started>>
    /\ UNCHANGED aux

\* tasks.py 254-262: the result is built with two accessors of the
\* callback; an accessor the class does not have raises AttributeError,
\* which lines 295-301 re-raise and Celery records as FAILURE
ResultBuilt ==
    {"get_token_usage_by_node", "get_total_tokens"}
        \subseteq TokenUsageCallbackMethods

content_generation_task_return ==
    /\ pc = "END"
    /\ msg.task = "content_generation_task"
    /\ IF ResultBuilt
       THEN /\ tasks' = [tasks EXCEPT ![cur] =
                    [PendingRecord EXCEPT
                        !.state = "SUCCESS",
                        !.result = [final_post |-> st.final_post,
                            token_usage_per_node |-> st.token_usage_by_node,
                            total_tokens_used |-> st.total_tokens]]]
            /\ ended' = Ended("done", "SUCCESS")
       ELSE /\ tasks' = [tasks EXCEPT ![cur] =
                    [PendingRecord EXCEPT
                        !.state = "FAILURE", !.error = "AttributeError"]]
            /\ ended' = Ended("done", "FAILURE")
    /\ Discard
    /\ UNCHANGED <<queue, next_task, next_thread, submits, http, lastGate,
                   started>>
    /\ UNCHANGED aux

\* checkpoints a caller can hand over that the task must refuse: one
\* without a thread id, one without a graph state
MalformedCheckpoints(checkpoint) ==
    {[checkpoint EXCEPT !.thread_id = 0],
     [checkpoint EXCEPT !.graph_state = NoState]}

\* the checkpoints a producer sends with a feedback: the stored checkpoint
\* of a paused task or, with a usable feedback, a malformed one or none
ResumeCheckpoints(feedback) ==
    LET stored == {tasks[t].checkpoint : t \in
                     {u \in TaskIds : tasks[u].state = "PENDING_USER_INPUT"}}
    IN IF feedback = "make it shorter"
       THEN stored \cup {NoCheckpoint}
                   \cup UNION {MalformedCheckpoints(c) : c \in stored}
       ELSE stored

\* ------------------------------------------ resume_content_generation_task
\* the task is registered with Celery (tasks.py 303-304): a producer sends it
\* with the checkpoint of a paused task and a feedback payload, and Celery
\* gives the message an id of its own
resume_content_generation_task_delay ==
    /\ submits < MaxSubmits
    /\ next_task \in TaskIds
    /\ \E feedback \in Feedbacks \cup {""} :
        \E checkpoint \in ResumeCheckpoints(feedback) :
              queue' = Append(queue,
                [NoMessage EXCEPT
                    !.task = "resume_content_generation_task",
                    !.id = next_task,
                    !.checkpoint = checkpoint,
                    !.feedback = feedback])
    /\ next_task' = next_task + 1
    /\ submits' = submits + 1
    /\ UNCHANGED <<tasks, pc, cur, thread_id, st, current_node, exc_state, exc,
                   content_to_refine, next_thread, http, msg, steps, entry,
                   ended, lastGate, started>>
    /\ UNCHANGED aux

\* a validation that does not look at the thread id
ResumeArgumentsInvalidIgnoringThread(checkpoint, feedback) ==
    \/ ~checkpoint.present
    \/ checkpoint.graph_state = NoState
    \/ ~FeedbackTruthy(feedback)

\* tasks.py 312-324: the arguments the task refuses with ValueError
ResumeArgumentsInvalid(checkpoint, feedback) ==
    \/ ~checkpoint.present
    \/ checkpoint.thread_id = 0
    \/ checkpoint.graph_state = NoState
    \/ ~FeedbackTruthy(feedback)

\* tasks.py 327: the feedback is written into the graph state
ResumeGraphState(checkpoint, feedback) ==
    [checkpoint.graph_state EXCEPT !.human_feedback = feedback]

\* tasks.py 339: feedback.strip().lower() == 'aprobar'
IsApproval(feedback) == StripLower(feedback) = APPROVAL

\* tasks.py 304-345: the worker takes the message (Celery marks the task
\* STARTED); invalid arguments raise, the approval keyword returns the
\* checkpoint's post at once, any other feedback enters the graph
resume_content_generation_task_start ==
    /\ pc = "idle"
    /\ queue # <<>>
    /\ Head(queue).task = "resume_content_generation_task"
    /\ LET m == Head(queue)
           graph_state == ResumeGraphState(m.checkpoint, m.feedback)
       IN
        /\ queue' = Tail(queue)
        /\ IF ResumeArgumentsInvalid(m.checkpoint, m.feedback)
           THEN /\ tasks' = [tasks EXCEPT ![m.id] =
                        [PendingRecord EXCEPT
                            !.state = "FAILURE", !.error = "ValueError"]]
                /\ ended' = [id |-> m.id, how |-> "exception",
                             status |-> "FAILURE"]
                /\ UNCHANGED <<pc, cur, thread_id, st, msg, entry, started>>
           ELSE IF IsApproval(m.feedback)
           THEN /\ tasks' = [tasks EXCEPT ![m.id] =
                        [PendingRecord EXCEPT
                            !.state = "SUCCESS",
                            !.result =
                              [final_post |-> graph_state.final_post,
                               token_usage_per_node |->
                                    graph_state.token_usage_by_node,
                               total_tokens_used |->
                                    graph_state.total_tokens]]]
                /\ ended' = [id |-> m.id, how |-> "done",
                             status |-> "SUCCESS"]
                /\ started' = Append(started,
                      [thread_id |-> m.checkpoint.thread_id,
                       final_post |-> m.checkpoint.graph_state.final_post])
                /\ UNCHANGED <<pc, cur, thread_id, st, msg, entry>>
           ELSE /\ tasks' = [tasks EXCEPT ![m.id] =
                        [PendingRecord EXCEPT !.state = "STARTED"]]
                /\ msg' = m
                /\ cur' = m.id
                /\ thread_id' = m.checkpoint.thread_id
                /\ st' = graph_state
                /\ entry' = graph_state
                /\ pc' = "START"
                /\ started' = Append(started,
                      [thread_id |-> m.checkpoint.thread_id,
                       final_post |-> m.checkpoint.graph_state.final_post])
                /\ UNCHANGED ended
    /\ UNCHANGED <<current_node, exc_state, exc, content_to_refine, next_task,
                   next_thread, submits, http, steps, lastGate>>
    /\ UNCHANGED aux

\* tasks.py 360-370
resume_except_HumanReviewRequired ==
    /\ pc = "raised"
    /\ msg.task = "resume_content_generation_task"
    /\ tasks' = [tasks EXCEPT ![cur] =
            [PendingRecord EXCEPT
                !.state = "PENDING_USER_INPUT",
                !.checkpoint = Stored(CheckpointData(thread_id, exc_state)),
                !.draft_content = DraftForDisplay(exc_state)]]
    /\ ended' = Ended("suspend", "PENDING_USER_INPUT")
    /\ Discard
    /\ UNCHANGED <<queue, next_task, next_thread, submits, http, lastGate,
                   started>>
    /\ UNCHANGED aux

\* tasks.py 350-357: the result is built with the same two accessors
resume_content_generation_task_return ==
    /\ pc = "END"
    /\ msg.task = "resume_content_generation_task"
    /\ IF ResultBuilt
       THEN /\ tasks' = [tasks EXCEPT ![cur] =
                    [PendingRecord EXCEPT
                        !.state = "SUCCESS",
                        !.result = [final_post |-> st.final_post,
                            token_usage_per_node |-> st.token_usage_by_node,
                            total_tokens_used |-> st.total_tokens]]]
            /\ ended' = Ended("done", "SUCCESS")
       ELSE /\ tasks' = [tasks EXCEPT ![cur] =
                    [PendingRecord EXCEPT
                        !.state = "FAILURE", !.error = "AttributeError"]]
            /\ ended' = Ended("done", "FAILURE")
    /\ Discard
    /\ UNCHANGED <<queue, next_task, next_thread, submits, http, lastGate,
                   started>>
    /\ UNCHANGED aux

\* a generation call raises: tasks.py 295-301 and 372-374 re-raise, Celery
\* records FAILURE
\* a generation call raises inside a step: the step writes nothing, and
\* run_graph_sync logs the exception and raises it again
step_raises ==
    /\ \/ pc \in LLMNodes
       \/ pc = "quality_gate" /\ GateCallsBackend(st)
    /\ \E e \in StepErrors : exc' = e
    /\ pc' = "failing"
    /\ UNCHANGED <<tasks, queue, cur, thread_id, st, current_node, exc_state,
                   content_to_refine, next_task, next_thread, submits, http,
                   msg, steps, entry, ended, lastGate, started>>
    /\ UNCHANGED aux

\* what the result backend holds once the task function has let the
\* exception out
ExceptionRecordSwallowed(error) == [PendingRecord EXCEPT !.state = "SUCCESS"]

ExceptionRecord(error) ==
    [PendingRecord EXCEPT !.state = "FAILURE", !.error = error]

\* the outermost handler of either task logs and raises again; the task
\* is declared without retries and never asks for one
except_Exception ==
    /\ pc = "failing"
    /\ tasks' = [tasks EXCEPT ![cur] = ExceptionRecord(exc)]
    /\ ended' = Ended("exception", tasks'[cur].state)
    /\ Discard
    /\ UNCHANGED <<queue, next_task, next_thread, submits, http, lastGate,
                   started>>
    /\ UNCHANGED aux

Worker ==
    \/ content_generation_task_start
    \/ EntryRouter
    \/ analyze_audience
    \/ draft_post
    \/ refine_for_engagement
    \/ finalize_and_format
    \/ extract_final_post
    \/ quality_gate
    \/ raise_HumanReviewRequired
    \/ except_HumanReviewRequired
    \/ content_generation_task_return
    \/ resume_content_generation_task_start
    \/ resume_except_HumanReviewRequired
    \/ resume_content_generation_task_return
    \/ step_raises
    \/ except_Exception

Next ==
    \/ generate_post_start
    \/ generate_post_invalid
    \/ content_generation_task_delay
    \/ generate_post_resume
    \/ resume_content_generation_task_delay
    \/ content_generation_task_start
    \/ EntryRouter
    \/ analyze_audience
    \/ draft_post
    \/ refine_for_engagement
    \/ finalize_and_format
    \/ extract_final_post
    \/ quality_gate
    \/ raise_HumanReviewRequired
    \/ except_HumanReviewRequired
    \/ content_generation_task_return
    \/ resume_content_generation_task_start
    \/ resume_except_HumanReviewRequired
    \/ resume_content_generation_task_return
    \/ step_raises
    \/ except_Exception

Spec == Init /\ [][Next]_vars

FairSpec == Spec /\ WF_vars(Worker)

\* ------------------------------------------------- two tasks side by side
\* Two worker slots of one worker process each run content_generation_task
\* for a fresh request. They share the compiled graph of
\* dependencies/graph.py; each task builds its own graph_state dictionary,
\* its own thread id and its own TokenUsageCallback (tasks.py 214-243).
\* A step is split where another task can run in between: the step names
\* itself to the callback, and later its generation call returns.
\* one callback object for the whole process
CallbackOfProcess(w) == 1

\* tasks.py 241: the callback a task uses is the one it has just built
CallbackOf(w) == w

\* the field a step writes with the text of its call
StepField(node) ==
    CASE node = "analyze_audience" -> "creative_brief"
      [] node = "draft_post" -> "draft_content"
      [] node = "refine_for_engagement" -> "refined_content"
      [] node = "finalize_and_format" -> "formatted_output"
      [] node = "extract_final_post" -> "final_post"

\* what a step does to the state before its call: Refine counts the cycle
BeforeCall(node, state) ==
    IF node = "refine_for_engagement"
    THEN [state EXCEPT !.revision_cycles =
            (IF @ = CyclesNone THEN 0 ELSE @) + 1]
    ELSE IF node = "analyze_audience" /\ state.revision_cycles = CyclesNone
    THEN [state EXCEPT !.revision_cycles = 0]
    ELSE state

\* the task starts: state and callback are built, the graph is entered
PairStart(w) ==
    /\ runs[w].pc = "idle"
    /\ runs[w].outcome = "none"
    /\ LET state == InitialGraphState(Payload) IN
       runs' = [runs EXCEPT ![w] = [NoRun EXCEPT !.pc = entry_router(state),
                                                 !.st = state]]
    /\ callbacks' = [callbacks EXCEPT ![CallbackOf(w)] =
                        [node |-> "unknown_node", owner |-> w]]
    /\ UNCHANGED <<service, poll, fetch, oauth>>

\* a step, or the gate, names itself to the callback of its run
PairTag(w) ==
    /\ ~runs[w].tagged
    /\ \/ runs[w].pc \in LLMNodes
       \/ runs[w].pc = "quality_gate" /\ GateCallsBackend(runs[w].st)
    /\ runs[w].pc = "refine_for_engagement"
            => runs[w].st.revision_cycles < MaxRevisionCycles
    /\ runs' = [runs EXCEPT ![w].tagged = TRUE,
                            ![w].st = BeforeCall(runs[w].pc, @)]
    /\ callbacks' = [callbacks EXCEPT ![CallbackOf(w)].node =
                        set_current_node(@, runs[w].pc)]
    /\ UNCHANGED <<service, poll, fetch, oauth>>

\* the generation call of a step returns: the callback counts the usage
\* in the dictionary it holds, then the step writes its field
PairCall(w) ==
    /\ runs[w].tagged
    /\ runs[w].pc \in LLMNodes
    /\ \E report \in Reports(runs[w].st) :
        LET cb == callbacks[CallbackOf(w)]
            counted == [runs EXCEPT ![cb.owner].st =
                            on_llm_end(@, cb.node, report)]
        IN runs' = [counted EXCEPT
                        ![w].st[StepField(runs[w].pc)] = NewText(runs[w].st),
                        ![w].pc = NextNode(runs[w].pc),
                        ![w].tagged = FALSE]
    /\ UNCHANGED <<callbacks, service, poll, fetch, oauth>>

\* the gate decides; a run that ends here ends its task
PairGate(w) ==
    /\ runs[w].pc = "quality_gate"
    /\ runs[w].tagged \/ ~GateCallsBackend(runs[w].st)
    /\ \E verdict \in Verdicts, report \in Reports(runs[w].st) :
        LET cb == callbacks[CallbackOf(w)]
            decision == GateDecision(runs[w].st, verdict)
            counted == IF GateCallsBackend(runs[w].st)
                       THEN [runs EXCEPT ![cb.owner].st =
                                on_llm_end(@, cb.node, report)]
                       ELSE runs
            notes == IF ~GateCallsBackend(runs[w].st)
                     THEN runs[w].st.review_notes
                     ELSE IF verdict = "APROBADO" THEN ApprovedNote
                     ELSE NewText(runs[w].st)
        IN runs' = [counted EXCEPT
                        ![w].st.review_notes = notes,
                        ![w].tagged = FALSE,
                        ![w].pc = IF decision = "end" THEN "END"
                                  ELSE "refine_for_engagement"]
    /\ UNCHANGED <<callbacks, service, poll, fetch, oauth>>

\* the run is over: the task function builds its result
PairReturn(w) ==
    /\ runs[w].pc = "END"
    /\ runs' = [runs EXCEPT ![w].pc = "idle",
                            ![w].outcome = IF ResultBuilt THEN "SUCCESS"
                                           ELSE "FAILURE"]
    /\ UNCHANGED <<callbacks, service, poll, fetch, oauth>>

PairNext ==
    \/ \E w \in Slots : PairStart(w)
    \/ \E w \in Slots : PairTag(w)
    \/ \E w \in Slots : PairCall(w)
    \/ \E w \in Slots : PairGate(w)
    \/ \E w \in Slots : PairReturn(w)

PairSpec == Init /\ [][PairNext]_vars

\* =================================================================== claims
Approves(feedback) == StripLower(feedback) = APPROVAL

Resumed == msg.checkpoint.present

\* the feedback the client submitted with the request behind the message
SubmittedFeedback ==
    IF msg.task = "resume_content_generation_task" THEN msg.feedback
    ELSE msg.checkpoint.human_feedback

\* C1: whenever the gate is evaluated on a state with
\* revision_cycles >= CYCLE_CEILING, its decision is PauseForReview,
\* whatever human_feedback holds, and revision_cycles is 0 afterwards
C1_CeilingAlwaysPauses ==
    (lastGate.decision # "none" /\ lastGate.cycles >= CYCLE_CEILING)
        => (lastGate.decision = "pause" /\ lastGate.after = 0)

\* C2: every invocation, fresh or resumed, stops: Refine is entered only
\* while revision_cycles is within the gate's ceiling, and a running
\* invocation always leads to the worker being idle again
C2_InvocationStops ==
    /\ [](pc = "refine_for_engagement"
            => st.revision_cycles <= MAX_AUTO_REVISIONS)
    /\ (pc # "idle") ~> (pc = "idle")

C2_Witness ==
    /\ pc = "quality_gate"
    /\ st.revision_cycles = MAX_AUTO_REVISIONS + 1
    /\ Resumed

\* C3: when the gate pauses, no step runs afterwards in that invocation,
\* no completed result is returned, and the task's record receives a
\* checkpoint whose state is the whole workflow state at the gate
C3_PauseHandsCheckpoint ==
    [][/\ (pc = "quality_gate" /\ pc' = "raised")
            => (exc_state' = st' /\ steps' = steps)
       /\ (pc = "raised" /\ pc' = "raised")
            => (st' = st /\ steps' = steps /\ tasks' = tasks)
       /\ (pc = "raised" /\ pc' # "raised")
            => /\ pc' = "idle"
               /\ exc_state = st
               /\ tasks'[cur].state = "PENDING_USER_INPUT"
               /\ tasks'[cur].result = NoResult
               /\ tasks'[cur].checkpoint.present
               /\ tasks'[cur].checkpoint.thread_id = thread_id
               /\ tasks'[cur].checkpoint.graph_state = st]_vars

C3_Witness ==
    /\ pc = "idle"
    /\ ended.how = "suspend"
    /\ tasks[ended.id].state = "PENDING_USER_INPUT"
    /\ tasks[ended.id].checkpoint.graph_state.final_post > 0

\* C4: a run resumed with non-approval feedback executes Refine first,
\* never AnalyzeAudience or Draft, and keeps the checkpoint's
\* creative_brief
C4_ResumeEntersAtRefine ==
    (Resumed /\ ~Approves(SubmittedFeedback) /\ steps # <<>>)
        => /\ steps[1] = "refine_for_engagement"
           /\ \A i \in DOMAIN steps :
                steps[i] \notin {"analyze_audience", "draft_post"}
           /\ st.creative_brief = msg.checkpoint.graph_state.creative_brief

\* C5: the state a resumed run enters the graph with is the checkpoint's
\* state with only human_feedback replaced by the submitted feedback
C5_ResumeInjectsFeedback ==
    (Resumed /\ pc = "START")
        => st = [msg.checkpoint.graph_state EXCEPT
                    !.human_feedback = SubmittedFeedback]

\* C6: a run resumed with the approval keyword executes no step and ends
\* succeeded with the final_post stored in the checkpoint
C6_ApprovalShortCircuit ==
    [][(Resumed /\ Approves(SubmittedFeedback))
        => /\ steps' = <<>>
           /\ pc' = "idle"
                => /\ tasks'[cur].state = "SUCCESS"
                   /\ tasks'[cur].result.final_post =
                        msg.checkpoint.graph_state.final_post]_vars

\* C7: a resume request is accepted only for a task whose record is
\* PENDING_USER_INPUT with a checkpoint; any other request is answered
\* with an error, enqueues nothing and leaves the records unchanged
ResumeEnqueued ==
    /\ Len(queue') = Len(queue) + 1
    /\ queue'[Len(queue')].task = "content_generation_task"
    /\ queue'[Len(queue')].checkpoint.present

C7_StaleResumeRejected ==
    [][/\ ResumeEnqueued
            => /\ http'.op = "resume"
               /\ http'.code = 202
               /\ tasks[http'.req].state = "PENDING_USER_INPUT"
               /\ tasks[http'.req].checkpoint.present
       /\ (http' # http /\ http'.op = "resume"
             /\ ~(/\ tasks[http'.req].state = "PENDING_USER_INPUT"
                  /\ tasks[http'.req].checkpoint.present))
            => /\ http'.code \in {400, 404}
               /\ queue' = queue
               /\ tasks' = tasks
               /\ pc' = pc]_vars

C7_Witness ==
    /\ http.op = "resume"
    /\ http.code = 400
    /\ tasks[http.req].state = "FAILURE"

\* C8: no checkpoint is the start of more than one resumed execution
C8_CheckpointConsumedOnce ==
    \A i, j \in DOMAIN started : i # j => started[i] # started[j]

\* C9: an accepted resume request answers with a task id different from
\* the one it was given
C9_ResumeReturnsNewTask ==
    (http.op = "resume" /\ http.code = 202) => http.task_id # http.req

\* C10: an invocation that reaches Done ends SUCCESS, one that is suspended
\* ends PENDING_USER_INPUT, one that raises ends FAILURE
C10_OutcomeMatchesEnd ==
    /\ ended.how = "done" => ended.status = "SUCCESS"
    /\ ended.how = "suspend" => ended.status = "PENDING_USER_INPUT"
    /\ ended.how = "exception" => ended.status = "FAILURE"

\* a snapshot with every field of the workflow state: the request fields
\* and a value, not a missing key, for each field the steps write
CompleteSnapshot(state) ==
    /\ state.query = Payload.query
    /\ state.tone = Payload.tone
    /\ state.niche = Payload.niche
    /\ state.account_name = Payload.account_name
    /\ state.link_url = Payload.link_url
    /\ \A v \in {state.creative_brief, state.draft_content,
                  state.refined_content, state.formatted_output,
                  state.final_post, state.review_notes} : v # Absent
    /\ state.revision_cycles >= 0
    /\ state.total_tokens >= 0

\* C11: in every reachable state a record that is PENDING_USER_INPUT carries
\* a checkpoint with a non-empty thread_id and a complete snapshot of the
\* workflow state, so a resume request on it finds a checkpoint
C11_AwaitingCarriesCheckpoint ==
    \A t \in TaskIds :
        tasks[t].state = "PENDING_USER_INPUT"
            => /\ tasks[t].checkpoint.present
               /\ tasks[t].checkpoint.thread_id # 0
               /\ CompleteSnapshot(tasks[t].checkpoint.graph_state)
               /\ ResumeStatusCode(tasks[t]) = 202

\* two records are paused on the same thread: the second pause was stored
\* by a resumed execution
C11_Witness ==
    \E t, u \in TaskIds :
        /\ t # u
        /\ tasks[t].state = "PENDING_USER_INPUT"
        /\ tasks[u].state = "PENDING_USER_INPUT"
        /\ tasks[t].checkpoint.thread_id = tasks[u].checkpoint.thread_id

\* C12: SUCCESS and FAILURE are terminal: once a record is in one of them,
\* no step of any operation changes its state or its result
C12_TerminalIsFinal ==
    [][\A t \in TaskIds :
          tasks[t].state \in {"SUCCESS", "FAILURE"}
              => /\ tasks'[t].state = tasks[t].state
                 /\ tasks'[t].result = tasks[t].result]_vars

C14_DecisionFollowsFeedback ==
    pc = "quality_gate"
        => \A c \in 0..(CYCLE_CEILING - 1), verdict \in Verdicts :
              GateDecision([st EXCEPT !.revision_cycles = c], verdict) =
                 IF FeedbackTruthy(st.human_feedback)
                        /\ Approves(st.human_feedback)
                 THEN "end" ELSE "refine"

\* C15: the gate's decision is a function of the workflow state alone: on
\* the state the gate is evaluated at, every answer of the backend leads
\* to the same decision
C15_DecisionIgnoresBackend ==
    pc = "quality_gate"
        => \A v1, v2 \in Verdicts :
              GateDecision(st, v1) = GateDecision(st, v2)

\* C16: a gate evaluation makes no generation call: it leaves total_tokens
\* and token_usage_by_node as they were, and no usage is ever recorded
\* under the gate's name
C16_GateUsesNoTokens ==
    [][/\ (pc = "quality_gate"
            /\ pc' \in {"END", "refine_for_engagement", "raised"})
           => /\ st'.total_tokens = st.total_tokens
              /\ st'.token_usage_by_node = st.token_usage_by_node
       /\ st'.token_usage_by_node["quality_gate"] = 0]_vars

\* the straight-line path of the graph
Pipeline == <<"analyze_audience", "draft_post", "refine_for_engagement",
              "finalize_and_format", "extract_final_post">>

\* C17: the first step of an invocation is Refine exactly when
\* human_feedback is set (non-empty) in the entry state and AnalyzeAudience
\* otherwise; an entry state whose human_feedback is None or the empty
\* string starts at AnalyzeAudience and runs the pipeline in full
C17_EntryFollowsFeedback ==
    /\ steps # <<>>
        => /\ FeedbackTruthy(entry.human_feedback)
                => steps[1] = "refine_for_engagement"
           /\ ~FeedbackTruthy(entry.human_feedback)
                => \A i \in DOMAIN steps :
                      i <= Len(Pipeline) => steps[i] = Pipeline[i]
    /\ pc = "START"
        => \A f \in {NoFeedback, ""} :
              entry_router([st EXCEPT !.human_feedback = f])
                 = "analyze_audience"

\* a run entered with feedback has executed Refine as its first step
C17_Witness ==
    /\ FeedbackTruthy(entry.human_feedback)
    /\ steps # <<>>
    /\ steps[1] = "refine_for_engagement"

\* C18: the steps of an invocation run one at a time in the fixed order:
\* AnalyzeAudience only as the entry step, Draft only directly after
\* AnalyzeAudience, Refine only directly after Draft, after the gate or as
\* the entry step, Finalize only directly after Refine, Extract only
\* directly after Finalize, and the gate is evaluated exactly once after
\* each Extract
C18_StepsInOrder ==
    [][/\ (steps' # steps /\ steps' # <<>>)
            => LET n == Len(steps')
                   step == steps'[n]
                   before == IF n = 1 THEN "entry" ELSE steps[n - 1]
               IN /\ steps' = Append(steps, step)
                  /\ pc = step
                  /\ step = "analyze_audience" => before = "entry"
                  /\ step = "draft_post" => before = "analyze_audience"
                  /\ step = "refine_for_engagement"
                        => \/ before \in {"entry", "draft_post"}
                           \/ /\ before = "extract_final_post"
                              /\ lastGate.decision = "refine"
                  /\ step = "finalize_and_format"
                        => before = "refine_for_engagement"
                  /\ step = "extract_final_post"
                        => before = "finalize_and_format"
                  /\ step = "extract_final_post" <=> pc' = "quality_gate"
       /\ (pc = "quality_gate" /\ pc' = "quality_gate")
            => (st' = st /\ lastGate' = lastGate)
       /\ (pc = "quality_gate"
            /\ pc' \notin {"quality_gate", "idle", "failing"})
            => /\ steps' = steps
               /\ lastGate'.decision # "none"
               /\ pc' = CASE lastGate'.decision = "end" -> "END"
                           [] lastGate'.decision = "refine"
                                -> "refine_for_engagement"
                           [] lastGate'.decision = "pause" -> "raised"]_vars

\* a run has gone round the loop: Refine ran again after the gate
C18_Witness ==
    /\ Len(steps) >= 7
    /\ steps[1] = "analyze_audience"
    /\ steps[6] = "refine_for_engagement"

\* the text a Refine step should work on: the refined_content of the
\* previous cycle when one was made from the current draft, the draft
\* otherwise
RefinedSinceDraft(state) ==
    Truthy(state.refined_content)
        /\ state.refined_content > state.draft_content

\* C19: every execution of Refine increases revision_cycles by exactly 1
\* and works on refined_content when a refined_content exists from an
\* earlier cycle of the loop, on draft_content when it is the first cycle
C19_RefineSource ==
    [][(pc = "refine_for_engagement" /\ pc' = "finalize_and_format")
        => /\ st'.revision_cycles = st.revision_cycles + 1
           /\ content_to_refine' =
                 IF RefinedSinceDraft(st) THEN st.refined_content
                 ELSE st.draft_content]_vars

RefineHasRun ==
    \E i \in DOMAIN steps : steps[i] = "refine_for_engagement"

\* C20: once Refine has run in an invocation, human_feedback is None: at
\* every later step and gate evaluation of the invocation and in the
\* snapshot of every checkpoint a pause stores
C20_FeedbackCleared ==
    /\ (pc # "idle" /\ RefineHasRun) => st.human_feedback = NoFeedback
    /\ \A t \in TaskIds :
          tasks[t].state = "PENDING_USER_INPUT"
              => tasks[t].checkpoint.graph_state.human_feedback = NoFeedback

\* how many times Refine has run in the invocation
RefineRuns == Cardinality({i \in DOMAIN steps :
                              steps[i] = "refine_for_engagement"})

\* the invocation of a fresh, valid request in which nothing was raised
FreshRun ==
    /\ msg.task = "content_generation_task"
    /\ msg.has_payload
    /\ ~msg.checkpoint.present
    /\ exc = NoException

\* C21: reaching the cycle ceiling is neither a failure nor a silent
\* approval: the first invocation for a fresh request runs Refine once and
\* ends its task awaiting input with a non-empty draft, never failed and
\* never succeeded
C21_CeilingEndsAwaitingInput ==
    [][(FreshRun /\ pc # "idle" /\ pc' = "idle")
            => /\ RefineRuns = 1
               /\ tasks'[cur].state = "PENDING_USER_INPUT"
               /\ tasks'[cur].draft_content > 0]_vars

C23_TransientFailureRetried ==
    [][(/\ pc = "failing" /\ pc' = "idle"
        /\ msg.task = "content_generation_task"
        /\ exc = "TransientGenerationError"
        /\ msg.retries = 0)
            => /\ tasks'[cur].state # "FAILURE"
               /\ \E i \in DOMAIN queue' : /\ queue'[i].id = cur
                                           /\ queue'[i].retries = 1]_vars

\* a request for a fresh run that is malformed: no payload at all, or a
\* payload without a required field
Malformed(m) ==
    /\ m.task = "content_generation_task"
    /\ ~m.checkpoint.present
    /\ (~m.has_payload \/ m.payload.query = Missing)

ValidationErrors == {"ValueError", "KeyError"}

\* C24: a validation error is never retried: the task of a malformed
\* request runs no step, is failed on its first attempt and is not queued
\* again, and a body the route turns down starts no task
C24_ValidationFailsAtOnce ==
    [][/\ (pc' # "idle" /\ Malformed(msg'))
            => /\ pc' = "failing"
               /\ exc' \in ValidationErrors
               /\ steps' = <<>>
               /\ msg'.retries = 0
       /\ (pc = "failing" /\ pc' = "idle" /\ exc \in ValidationErrors)
            => /\ tasks'[cur].state = "FAILURE"
               /\ tasks'[cur].error = exc
               /\ queue' = queue
       /\ (http' # http /\ http'.code = 422)
            => (queue' = queue /\ tasks' = tasks)]_vars

\* the task of a request without a required field has ended failed
C24_Witness ==
    /\ ended.how = "exception"
    /\ \E t \in TaskIds : /\ ended.id = t
                          /\ tasks[t].state = "FAILURE"
                          /\ tasks[t].error = "KeyError"

\* C25: the task resumed by submit_feedback with the approval keyword ends
\* succeeded and reports exactly the usage stored in the checkpoint: no
\* generation call adds to the per-step map or to the total on the way
C25_ApprovalAddsNoUsage ==
    [][(/\ pc # "idle"
        /\ Resumed
        /\ msg.task = "content_generation_task"
        /\ Approves(SubmittedFeedback))
            => LET saved == msg.checkpoint.graph_state IN
               /\ pc' # "idle"
                    => /\ st'.total_tokens = saved.total_tokens
                       /\ st'.token_usage_by_node =
                            saved.token_usage_by_node
               /\ pc' = "idle"
                    => /\ tasks'[cur].state = "SUCCESS"
                       /\ tasks'[cur].result.total_tokens_used =
                            saved.total_tokens
                       /\ tasks'[cur].result.token_usage_per_node =
                            saved.token_usage_by_node]_vars

RECURSIVE SumOver(_, _)
SumOver(usage, nodes) ==
    IF nodes = {} THEN 0
    ELSE LET n == CHOOSE x \in nodes : TRUE
         IN usage[n] + SumOver(usage, nodes \ {n})

UsageSum(usage) == SumOver(usage, DOMAIN usage)

C27_UsageCreditedToCaller ==
    [][\A n \in NodeNames :
        (/\ pc # "idle" /\ pc' # "idle"
         /\ st'.token_usage_by_node[n] > st.token_usage_by_node[n])
            => /\ n = pc
               /\ n # "unknown_node"
               /\ n \in LLMNodes => steps' = Append(steps, n)
               /\ \A other \in NodeNames \ {n} :
                    st'.token_usage_by_node[other] =
                        st.token_usage_by_node[other]]_vars

\* Refine, the third step of a run, has been credited with tokens of its
\* own call and the run has moved on
C27_Witness ==
    /\ pc = "finalize_and_format"
    /\ st.token_usage_by_node["refine_for_engagement"] > 0
    /\ st.token_usage_by_node["draft_post"] = 0
    /\ Len(steps) >= 3

\* the reports that carry no usage: zero tokens, or no metadata at all
QuietReports == {NoMetadata, 0}

\* C28: a generation call that reports zero tokens or no usage metadata is
\* not an error: the callback of the step about to run leaves the state as
\* it was, such a report is always among those a step can receive, and the
\* step receiving it completes and hands over to the next with the usage
\* map and the total unchanged
C28_NoUsageIsNoError ==
    /\ pc \in NodeNames
        => /\ \A report \in QuietReports :
                on_llm_end(st, set_current_node(current_node, pc), report)
                    = st
           /\ QuietReports \subseteq Reports(st)
    /\ pc \in LLMNodes
        => ENABLED (/\ Worker
                    /\ pc' = NextNode(pc)
                    /\ steps' = Append(steps, pc)
                    /\ st'.total_tokens = st.total_tokens
                    /\ st'.token_usage_by_node = st.token_usage_by_node)

\* a first pass has run its five steps to the gate with no call having
\* reported usage
C28_Witness ==
    /\ pc = "quality_gate"
    /\ Len(steps) = 5
    /\ st.final_post > 0
    /\ st.total_tokens = 0

\* the fields of the workflow state each step may write, and the two the
\* usage callback keeps
RequestFields == {"query", "tone", "niche", "account_name", "link_url"}

UsageFields == {"token_usage_by_node", "total_tokens"}

OwnedFields(step) ==
    CASE step = "analyze_audience" -> {"creative_brief"}
      [] step = "draft_post" -> {"draft_content"}
      [] step = "refine_for_engagement"
            -> {"refined_content", "revision_cycles", "human_feedback"}
      [] step = "finalize_and_format" -> {"formatted_output"}
      [] step = "extract_final_post" -> {"final_post"}

SoloNext(r) ==
    LET gateCalls == GateCallsBackend(r.st) IN
    CASE r.pc = "idle" /\ r.outcome = "none" ->
            {[NoRun EXCEPT !.pc = "analyze_audience",
                           !.st = InitialGraphState(Payload)]}
      [] ~r.tagged /\ (r.pc \in LLMNodes
                        \/ (r.pc = "quality_gate" /\ gateCalls)) ->
            {[r EXCEPT !.tagged = TRUE, !.st = BeforeCall(r.pc, @)]}
      [] r.tagged /\ r.pc \in LLMNodes ->
            {[r EXCEPT !.st = [on_llm_end(r.st, r.pc, report) EXCEPT
                                ![StepField(r.pc)] = NewText(r.st)],
                       !.pc = NextNode(r.pc),
                       !.tagged = FALSE] : report \in Reports(r.st)}
      [] r.pc = "quality_gate" /\ (r.tagged \/ ~gateCalls) ->
            {[r EXCEPT
                !.st = IF gateCalls
                       THEN [on_llm_end(r.st, "quality_gate", x[2]) EXCEPT
                                !.review_notes =
                                    IF x[1] = "APROBADO" THEN ApprovedNote
                                    ELSE NewText(r.st)]
                       ELSE r.st,
                !.tagged = FALSE,
                !.pc = IF gateCalls /\ x[1] # "APROBADO"
                       THEN "refine_for_engagement" ELSE "END"] :
             x \in Verdicts \X Reports(r.st)}
      [] r.pc = "END" ->
            {[r EXCEPT !.pc = "idle", !.outcome = "FAILURE"]}
      [] OTHER -> {}

\* C31: tasks with different ids are independent: in any interleaving of
\* the steps of two tasks a step changes the record of one run only, and
\* the change (state, usage, outcome) is one the run makes when it runs
\* alone
C31_TasksIndependent ==
    [][\A w \in Slots :
        runs'[w] # runs[w]
            => /\ runs'[w] \in SoloNext(runs[w])
               /\ \A o \in Slots \ {w} : runs'[o] = runs[o]]_vars

\* both tasks are between naming themselves and the return of their call,
\* at different steps, and usage has been counted for one of them
C31_Witness ==
    /\ runs[1].tagged /\ runs[1].pc = "draft_post"
    /\ runs[2].tagged /\ runs[2].pc = "refine_for_engagement"
    /\ runs[2].st.total_tokens > 0
    /\ runs[1].st.total_tokens = 0
    /\ callbacks[1].node # callbacks[2].node

\* C33: in a resumed run the first Refine works on the refined_content
\* the checkpoint holds, also after a pause reset revision_cycles to 0,
\* and never on the original draft_content
C33_ResumedRefineSource ==
    [][(/\ pc = "refine_for_engagement"
        /\ pc' = "finalize_and_format"
        /\ msg.task = "resume_content_generation_task"
        /\ ~RefineHasRun
        /\ Truthy(entry.refined_content))
        => content_to_refine' = entry.refined_content]_vars

\* the answer of GET /generate_post/status/{task_id}: one record for the
\* five shapes the route returns, with None for a key the shape lacks
NoAnswer == [status |-> "none", result |-> NoResult, error |-> "none",
             info |-> NoCheckpoint, draft_content |-> None]

\* a status route that forgets the draft of a paused task
get_generation_statusWithoutDraft(record) ==
    [NoAnswer EXCEPT !.status = record.state]

\* content.py 197-221
get_generation_status(record) ==
    IF record.state = "PENDING" THEN [NoAnswer EXCEPT !.status = "PENDING"]
    ELSE IF record.state = "SUCCESS"
    THEN [NoAnswer EXCEPT !.status = "SUCCESS", !.result = record.result]
    ELSE IF record.state = "FAILURE"
    THEN [NoAnswer EXCEPT !.status = "FAILURE", !.error = record.error]
    ELSE IF record.state = "PENDING_USER_INPUT"
    THEN [NoAnswer EXCEPT
            !.status = "PENDING_USER_INPUT",
            !.info = record.checkpoint,
            !.draft_content = record.draft_content]
    ELSE [NoAnswer EXCEPT !.status = record.state,
                          !.info = record.checkpoint]

C35_ThreadIdKept ==
    [][/\ (pc = "raised" /\ pc' = "idle")
            => /\ tasks'[cur].checkpoint.thread_id # 0
               /\ tasks'[cur].checkpoint.thread_id =
                    IF msg.checkpoint.present
                    THEN msg.checkpoint.thread_id
                    ELSE thread_id
       /\ Len(queue') > Len(queue)
            => LET m == queue'[Len(queue')] IN
               m.checkpoint.present
                   => /\ m.task = "content_generation_task"
                            => m.checkpoint.thread_id # 0
                      /\ m.checkpoint.thread_id # 0
                            => \E t \in TaskIds :
                                 /\ tasks[t].state = "PENDING_USER_INPUT"
                                 /\ m.checkpoint.thread_id
                                       = tasks[t].checkpoint.thread_id]_vars

\* a resumed execution paused again, on the thread of the checkpoint it
\* was given
C35_Witness ==
    /\ pc = "idle"
    /\ ended.how = "suspend"
    /\ ended.id \in TaskIds
    /\ tasks[ended.id].state = "PENDING_USER_INPUT"
    /\ tasks[ended.id].checkpoint.thread_id # 0
    /\ \E i \in DOMAIN started :
          started[i].thread_id = tasks[ended.id].checkpoint.thread_id

\* C36: resume_content_generation_task fails with an error, before any step
\* runs, when the checkpoint is missing, has no thread_id, has no
\* graph_state or the feedback is empty, and the failing execution leaves
\* the graph state and every stored checkpoint as they were
C36_ResumeRefusesBadArguments ==
    [][(/\ pc = "idle"
        /\ queue # <<>>
        /\ Head(queue).task = "resume_content_generation_task"
        /\ queue' = Tail(queue)
        /\ \/ ~Head(queue).checkpoint.present
           \/ Head(queue).checkpoint.thread_id = 0
           \/ Head(queue).checkpoint.graph_state = NoState
           \/ Head(queue).feedback \in {NoFeedback, AbsentFeedback, ""})
        => /\ tasks'[Head(queue).id].state = "FAILURE"
           /\ tasks'[Head(queue).id].error = "ValueError"
           /\ pc' = "idle"
           /\ steps' = steps
           /\ st' = st
           /\ \A t \in TaskIds \ {Head(queue).id} : tasks'[t] = tasks[t]]_vars

\* a resume execution sent without a checkpoint was refused before any
\* generation task had started
C36_Witness ==
    \E t \in TaskIds :
        /\ tasks[t].state = "FAILURE"
        /\ tasks[t].error = "ValueError"
        /\ ended = [id |-> t, how |-> "exception", status |-> "FAILURE"]
        /\ next_thread = 1
        /\ pc = "idle"
        /\ steps = <<>>

\* ------------------------------------------------ the page polls a task
\* pages/content_generation.py: render_page (133-190) polls in a loop of
\* its own; handle_polling (10-65) makes one poll per run of the script

\* content_generation.py 275-282: the form was submitted and the id of the
\* new task is kept in the session; an id the backend has no row for
\* answers PENDING for ever (content.py 204-206)
PollStart ==
    /\ poll.page = "none"
    /\ \E page \in {"handle_polling", "render_page"}, known \in BOOLEAN :
        poll' = [NoPoll EXCEPT !.page = page, !.generation_task_id = 1,
                               !.known = known]
    /\ UNCHANGED <<service, runs, callbacks, fetch, oauth>>

\* the worker moves the task on (tasks.py 199-300)
TaskMoves ==
    /\ poll.known
    /\ poll.generation_task_id # 0
    /\ \/ /\ poll.state = "PENDING"
          /\ poll' = [poll EXCEPT !.state = "STARTED"]
       \/ /\ poll.state = "STARTED"
          /\ \E s \in {"SUCCESS", "FAILURE", "PENDING_USER_INPUT"} :
                poll' = [poll EXCEPT !.state = s]
    /\ UNCHANGED <<service, runs, callbacks, fetch, oauth>>

\* api_client.get_generation_status: the status the route answers, or a
\* RequestException
StatusAnswers(state) ==
    {get_generation_status([PendingRecord EXCEPT !.state = state]).status,
     "RequestException"}

\* content_generation.py 10-65: one run of the script that reaches
\* handle_polling while no draft waits for review
handle_polling ==
    /\ poll.page = "handle_polling"
    /\ poll.generation_task_id # 0
    /\ poll.shown # "review"
    /\ LET attempts == (IF poll.polling_attempts = Absent THEN 0
                        ELSE poll.polling_attempts) + 1
       IN IF attempts > max_attempts
          THEN poll' = [poll EXCEPT !.shown = "timeout",
                                    !.generation_task_id = 0,
                                    !.polling_attempts = Absent]
          ELSE \E status \in StatusAnswers(poll.state) :
                poll' =
                  IF status = "PENDING_USER_INPUT"
                  THEN [poll EXCEPT !.shown = "review",
                                    !.polling_attempts = Absent,
                                    !.calls = @ + 1]
                  ELSE IF status \in {"SUCCESS", "FAILURE", "RequestException"}
                  THEN [poll EXCEPT !.shown = status,
                                    !.generation_task_id = 0,
                                    !.polling_attempts = Absent,
                                    !.calls = @ + 1]
                  ELSE [poll EXCEPT !.polling_attempts = attempts,
                                    !.calls = @ + 1]
    /\ UNCHANGED <<service, runs, callbacks, fetch, oauth>>

\* content_generation.py 148-190: one turn of the while True loop
render_page ==
    /\ poll.page = "render_page"
    /\ poll.generation_task_id # 0
    /\ poll.calls < MaxPolls
    /\ \E status \in StatusAnswers(poll.state) :
        poll' =
          IF status = "PENDING_USER_INPUT"
          THEN [poll EXCEPT !.shown = "review", !.generation_task_id = 0,
                            !.calls = @ + 1]
          ELSE IF status \in {"SUCCESS", "FAILURE", "RequestException"}
          THEN [poll EXCEPT !.shown = status, !.generation_task_id = 0,
                            !.calls = @ + 1]
          ELSE [poll EXCEPT !.calls = @ + 1]
    /\ UNCHANGED <<service, runs, callbacks, fetch, oauth>>

PollNext ==
    \/ PollStart
    \/ TaskMoves
    \/ handle_polling
    \/ render_page

PollSpec == Init /\ [][PollNext]_vars

\* -------------------------------------------------- fetch_with_retry_log
\* what one call of api_call_func followed by raise_for_status and json()
\* can give: a 2xx answer with or without a JSON body, an HTTPError with
\* its status code, another RequestException (no connection, timeout), or
\* an exception of any other class
Responses ==
    {[kind |-> "ok", status_code |-> 200, json |-> TRUE],
     [kind |-> "ok", status_code |-> 200, json |-> FALSE],
     [kind |-> "HTTPError", status_code |-> 500, json |-> FALSE],
     [kind |-> "HTTPError", status_code |-> 503, json |-> FALSE],
     [kind |-> "HTTPError", status_code |-> 429, json |-> FALSE],
     [kind |-> "HTTPError", status_code |-> 400, json |-> FALSE],
     [kind |-> "HTTPError", status_code |-> 404, json |-> FALSE],
     [kind |-> "RequestException", status_code |-> 0, json |-> FALSE],
     [kind |-> "Exception", status_code |-> 0, json |-> FALSE]}

\* a helper that retries after every HTTP error
RetriedStatusAny(status_code) == TRUE

\* social_apis.py 24
RetriedStatus(status_code) == status_code >= 500 \/ status_code = 429

\* social_apis.py 10: the call, with its max_retries argument
FetchStart ==
    /\ fetch.outcome = "idle"
    /\ \E n \in 0..DEFAULT_MAX_RETRIES :
        fetch' = [NoFetch EXCEPT
                    !.max_retries = n,
                    !.outcome = IF n = 0 THEN "returned" ELSE "running",
                    !.value = IF n = 0 THEN "None" ELSE "none"]
    /\ UNCHANGED <<service, runs, callbacks, poll, oauth>>

\* social_apis.py 11-42: one turn of the loop
FetchAttempt ==
    /\ fetch.outcome = "running"
    /\ \E r \in Responses :
        LET called == [fetch EXCEPT !.responses = Append(@, r)]
            last == fetch.attempt + 1 = fetch.max_retries
            again == [called EXCEPT !.attempt = @ + 1]
            raised == [called EXCEPT !.outcome = "raised",
                                     !.value = r.kind]
        IN fetch' =
            IF r.kind = "ok"
            THEN [called EXCEPT !.outcome = "returned",
                                !.value = IF r.json THEN "json" ELSE "None"]
            ELSE IF r.kind = "HTTPError"
            THEN IF RetriedStatus(r.status_code)
                 THEN IF last THEN raised ELSE again
                 ELSE raised
            ELSE IF r.kind = "RequestException"
            THEN IF last THEN raised ELSE again
            ELSE raised
    /\ UNCHANGED <<service, runs, callbacks, poll, oauth>>

\* the caller goes on to its next call
FetchReset ==
    /\ fetch.outcome \in {"returned", "raised"}
    /\ fetch' = NoFetch
    /\ UNCHANGED <<service, runs, callbacks, poll, oauth>>

FetchNext ==
    \/ FetchStart
    \/ FetchAttempt
    \/ FetchReset

FetchSpec == Init /\ [][FetchNext]_vars

\* ------------------------------------------------------- OAuth endpoints
\* main.py 265: the state of the query against the one kept in the session
StateAccepted(state, stored_csrf_state) == ~(state # stored_csrf_state)

\* main.py 212-251: GET /auth/login/{provider}; the OAuth2Session draws a
\* new random state, which is kept in the browser session
oauth_login ==
    /\ oauth.issued < MaxLogins
    /\ oauth.requests < MaxCallbacks
    /\ \E provider \in {"linkedin", "other"} :
        oauth' =
          IF provider = "linkedin"
          THEN [oauth EXCEPT
                  !.oauth_state = oauth.issued + 1,
                  !.issued = @ + 1,
                  !.requests = @ + 1,
                  !.last = [NoRequest EXCEPT !.op = "login",
                                             !.stored = oauth.oauth_state,
                                             !.result = "redirect"]]
          ELSE [oauth EXCEPT
                  !.requests = @ + 1,
                  !.last = [NoRequest EXCEPT !.op = "login",
                                             !.stored = oauth.oauth_state,
                                             !.result = "404"]]
    /\ UNCHANGED <<service, runs, callbacks, poll, fetch>>

\* main.py 253-368: GET /auth/callback/{provider} with its query
\* parameters (state 0: none given), the outcome of the token request and
\* of the upsert; for a provider other than linkedin no token is requested
\* and line 306 fails on the token that is None
oauth_callback ==
    /\ oauth.requests < MaxCallbacks
    /\ \E provider \in {"linkedin", "other"},
          error \in BOOLEAN, code \in BOOLEAN, state \in 0..MaxLogins,
          token_ok \in BOOLEAN, db_ok \in BOOLEAN :
        LET stored_csrf_state == oauth.oauth_state
            request == [NoRequest EXCEPT !.op = "callback", !.error = error,
                                         !.code = code, !.state = state,
                                         !.stored = stored_csrf_state]
            seen == [oauth EXCEPT !.requests = @ + 1]
        IN oauth' =
            IF error
            THEN [seen EXCEPT !.last = [request EXCEPT !.result = "error"]]
            ELSE IF ~code \/ state = 0
            THEN [seen EXCEPT !.last =
                    [request EXCEPT !.result = "missing_code_or_state"]]
            ELSE IF ~StateAccepted(state, stored_csrf_state)
            THEN [seen EXCEPT
                    !.oauth_state = 0,
                    !.last = [request EXCEPT !.result = "state_mismatch"]]
            ELSE IF provider # "linkedin"
            THEN [seen EXCEPT
                    !.oauth_state = 0,
                    !.accepted = @ \cup {state},
                    !.last = [request EXCEPT !.result = "callback_failed"]]
            ELSE IF ~token_ok
            THEN [seen EXCEPT
                    !.oauth_state = 0,
                    !.tokens = @ + 1,
                    !.accepted = @ \cup {state},
                    !.last = [request EXCEPT !.result = "token_fetch_failed"]]
            ELSE IF ~db_ok
            THEN [seen EXCEPT
                    !.oauth_state = 0,
                    !.tokens = @ + 1,
                    !.accepted = @ \cup {state},
                    !.last = [request EXCEPT !.result = "db_error"]]
            ELSE [seen EXCEPT
                    !.oauth_state = 0,
                    !.tokens = @ + 1,
                    !.rows = @ + 1,
                    !.accepted = @ \cup {state},
                    !.last = [request EXCEPT !.result = "session"]]
    /\ UNCHANGED <<service, runs, callbacks, poll, fetch>>

OAuthNext ==
    \/ oauth_login
    \/ oauth_callback

OAuthSpec == Init /\ [][OAuthNext]_vars

\* C37: polling of a generation task always stops: while the task stays
\* PENDING the page asks for its status at most max_attempts times, then
\* reports a timeout and clears generation_task_id, and it stops at the
\* poll that answers SUCCESS, FAILURE or PENDING_USER_INPUT
C37_PollingBounded ==
    /\ poll.calls <= max_attempts
    /\ poll.shown \in {"SUCCESS", "FAILURE", "RequestException", "timeout"}
            => poll.generation_task_id = 0

\* a response after which the helper may call again: HTTP 5xx, HTTP 429 or
\* a RequestException that is not an HTTPError
MayRetryAfter(r) ==
    \/ r.kind = "RequestException"
    \/ r.kind = "HTTPError" /\ r.status_code \in {429} \cup (500..599)

Served == oauth'.requests = oauth.requests + 1

\* C39: the callback asks for a token and stores a session only when its
\* state equals the oauth_state saved at login; on a missing or mismatching
\* state no token is fetched and no session row written; and the saved
\* oauth_state is removed after one callback that presents a state, so the
\* same state value is not accepted twice
C39_StateCheckedAndConsumed ==
    [][(Served /\ oauth'.last.op = "callback")
        => /\ (oauth'.tokens # oauth.tokens \/ oauth'.rows # oauth.rows)
                => /\ oauth'.last.state # 0
                   /\ oauth'.last.state = oauth.oauth_state
           /\ (oauth'.last.state = 0
                 \/ oauth'.last.state # oauth.oauth_state)
                => /\ oauth'.tokens = oauth.tokens
                   /\ oauth'.rows = oauth.rows
           /\ oauth'.last.state # 0 => oauth'.oauth_state = 0
           /\ oauth'.accepted # oauth.accepted
                => oauth'.last.state \notin oauth.accepted]_vars

====
